---- MODULE Spec2Model ----
(***************************************************************************)
(* The support-ticket workflow: process_ticket_async (src/app.py) driving  *)
(* the compiled LangGraph of src/support_agent/graph.py, whose nodes are   *)
(* the handlers of src/support_agent/nodes.py working on the state of      *)
(* src/support_agent/state.py.                                             *)
(*                                                                         *)
(* Python strings are modelled as sequences of parts (the empty string is  *)
(* the empty sequence), None as a reserved value, timestamps as "t".       *)
(***************************************************************************)
EXTENDS Integers, Sequences, FiniteSets, TLC

VARIABLES
    ticket,          \* the ticket handed to process_ticket_async
    gemini_client,   \* nodes.gemini_client is not None
    rag_system,      \* nodes.rag_system is not None
    state,           \* the SupportTicketState threaded through the graph
    pc,              \* the node the executor runs next, or END
    steps,           \* supersteps the executor has run
    graph_raised,    \* agent.ainvoke raised (GraphRecursionError)
    escalation_log,  \* rows appended to escalation_log.csv
    outcome,         \* what process_ticket_async returned
    last_call,       \* how the external call of the last handler went
    failed_calls,    \* the handlers whose external call has failed in this run
    last_exchange,   \* what the last handler sent to and got from its service
    csv_file,        \* escalation_log.csv, line by line, under concurrent writers
    writers,         \* the executions inside save_escalation_log
    heap,            \* the list objects of concurrent executions, by address
    runs,            \* the concurrent executions: state, next node, inputs so far
    document_stores, \* RAGSystem.document_stores: the documents indexed, by category
    similarities,    \* cosine similarity of each document to the query, in hundredths
    in_flight,       \* a handler is waiting for its external call
    checkpoint       \* the state the checkpointer saved after the last superstep

\* what the specifications of single components work on
rag_vars == <<document_stores, similarities>>

restart_vars == <<in_flight, checkpoint>>

component_vars == <<csv_file, writers, heap, runs, rag_vars, restart_vars>>

vars == <<ticket, gemini_client, rag_system, state, pc, steps, graph_raised,
          escalation_log, outcome, last_call, failed_calls, last_exchange,
          csv_file, writers,
          heap, runs, document_stores, similarities, in_flight, checkpoint>>

(* ------------------------------ bounds -------------------------------- *)

\* Supersteps the executor runs before it raises GraphRecursionError.  The
\* config built at app.py:267 sets no recursion_limit, so LangGraph's own
\* default applies; the model bounds it lower.
RecursionLimit == 12

\* The supersteps each of two executions side by side is followed for.
ConcurrentSteps == 8

(* ----------------------------- constants ------------------------------ *)

END == "__end__"

NoneStr == "None"

\* None where a string (sequence of parts) is expected
NoneText == <<"__None__">>

Categories == {"Billing", "Technical", "Security", "General"}

\* A text is a sequence of words (the words a space separates) and a word a
\* sequence of characters.
Tickets ==
    { [subject |-> <<<<"R", "e", "f", "u", "n", "d">>, <<"r", "e", "q", "u", "e", "s", "t">>>>,
       description |-> <<<<"c", "h", "a", "r", "g", "e", "d">>, <<"t", "w", "i", "c", "e">>>>],
      [subject |-> <<<<"h", "e", "l", "l", "o">>>>, description |-> <<<<"q", "u", "e", "s", "t", "i", "o", "n">>>>] }

\* the words the tickets of the heuristic's own runs are made of
HeuristicWords ==
    { <<"p", "a", "y", "m", "e", "n", "t">>,
      <<"R", "e", "f", "u", "n", "d">>,
      <<"c", "h", "a", "r", "g", "e", "d">>,
      <<"b", "i", "l", "l", "i", "n", "g">>,
      <<"p", "r", "i", "c", "e">>,
      <<"a", "p", "i">>,
      <<"e", "r", "r", "o", "r">>,
      <<"d", "e", "b", "u", "g">>,
      <<"i", "n", "t", "e", "g", "r", "a", "t", "i", "o", "n">>,
      <<"t", "e", "c", "h", "n", "i", "c", "a", "l">>,
      <<"s", "e", "c", "u", "r", "i", "t", "y">>,
      <<"p", "a", "s", "s", "w", "o", "r", "d">>,
      <<"l", "o", "g", "i", "n">>,
      <<"a", "c", "c", "e", "s", "s">>,
      <<"a", "u", "t", "h", "e", "n", "t", "i", "c", "a", "t", "i", "o", "n">>,
      <<"h", "e", "l", "l", "o">>,
      <<"q", "u", "e", "s", "t", "i", "o", "n">>,
      <<"c", "a", "p", "i", "t", "a", "l">> }

\* tickets of one word in the subject and one in the description
HeuristicTickets ==
    { [subject |-> <<a>>, description |-> <<b>>] : a, b \in HeuristicWords }

\* a word of n characters
LongWord(n) == [i \in 1..n |-> "x"]

\* What the form hands to main. A blank between two words is the gap between
\* two elements, so a text that begins or ends with a blank begins or ends
\* with an empty word, and " " is two empty words.
SubmittedTickets ==
    { [subject |-> <<>>, description |-> <<<<"q", "u", "e", "s", "t", "i", "o", "n">>>>],
      [subject |-> <<<<"h", "e", "l", "l", "o">>>>, description |-> <<>>],
      [subject |-> << <<>>, <<>> >>, description |-> <<<<"q", "u", "e", "s", "t", "i", "o", "n">>>>],
      [subject |-> <<<<"h", "e", "l", "l", "o">>>>, description |-> << <<>>, <<>>, <<>> >>],
      [subject |-> << <<>>, <<"h", "e", "l", "l", "o">>, <<>> >>, description |-> <<<<"q", "u", "e", "s", "t", "i", "o", "n">>, <<>> >>],
      [subject |-> <<LongWord(200)>>, description |-> <<<<"q", "u", "e", "s", "t", "i", "o", "n">>>>],
      [subject |-> <<LongWord(201)>>, description |-> <<<<"q", "u", "e", "s", "t", "i", "o", "n">>>>],
      [subject |-> <<<<"h", "e", "l", "l", "o">>>>, description |-> <<LongWord(5000)>>],
      [subject |-> <<<<"h", "e", "l", "l", "o">>>>, description |-> <<LongWord(5001)>>] }

\* str.lower() of a category name
Lower(c) ==
    CASE c = "Billing" -> "billing"
      [] c = "Technical" -> "technical"
      [] c = "Security" -> "security"
      [] c = "General" -> "general"
      [] OTHER -> "support"

(* ------------------------- external services -------------------------- *)

\* What the classification request can come back with: a category name, any
\* other text, a non-200 status, or an exception of requests.post.
ClassifierReplies == Categories \cup {"Refunds", "http_error", "exception"}

\* Documents the retriever can return (by source), best first, or an
\* exception inside the search.
RetrieverResults == { <<>>, <<"d2", "d1">>, <<"exception">> }

\* Text the generation request can come back with (after strip()), or a
\* failure of the request.
GeneratorReplies == { <<"llm">>, <<>>, <<"http_error">> }

\* What the review request can come back with.  A reply text is modelled by
\* the verdict words its upper-cased form contains and by what is left of
\* it after "REJECTED:" is removed.
ReviewerReplies ==
    { [kind |-> "text", approved |-> TRUE,  rejected |-> FALSE, rest |-> "APPROVED"],
      [kind |-> "text", approved |-> FALSE, rejected |-> TRUE,  rest |-> "too vague"],
      [kind |-> "text", approved |-> FALSE, rejected |-> TRUE,  rest |-> "wrong policy"],
      [kind |-> "text", approved |-> TRUE,  rejected |-> TRUE,  rest |-> "not approved yet"],
      [kind |-> "text", approved |-> FALSE, rejected |-> FALSE, rest |-> "looks fine"],
      [kind |-> "http_error", approved |-> FALSE, rejected |-> FALSE, rest |-> ""],
      [kind |-> "exception", approved |-> FALSE, rejected |-> FALSE, rest |-> ""] }

(* ------------------------------ state.py ------------------------------ *)

\* no state has been created
NoState == [status |-> "not_created"]

create_initial_state(t) ==
    [ ticket |-> t,
      category |-> "",
      retrieved_context |-> <<>>,
      drafts |-> <<>>,
      current_draft |-> NoneText,
      review_feedback |-> <<>>,
      review_status |-> NoneStr,
      latest_feedback |-> NoneStr,
      final_output |-> <<>>,
      retries |-> 0,
      status |-> "initialized",
      escalated |-> FALSE,
      processing_start_time |-> "t",
      processing_end_time |-> NoneStr,
      node_execution_log |-> <<>> ]

\* log_state_transition replacing the log by its newest entry
log_state_transition_newest_only(s, node_name) ==
    [s EXCEPT !.node_execution_log = <<node_name>>]

\* appends one entry for the node to node_execution_log
log_state_transition(s, node_name) ==
    [s EXCEPT !.node_execution_log = Append(@, node_name)]

(* --------------------------- rag_system.py ---------------------------- *)

\* RAGSystem.retrieve_context: the documents found, none when the search
\* raised
retrieve_context(result) ==
    IF result = <<"exception">> THEN <<>> ELSE result

(* ------------------------------ utils.py ------------------------------ *)

\* str.strip() of a text: the blanks at its two ends are dropped
strip(text) ==
    LET filled == {i \in 1..Len(text) : text[i] # <<>>}
    IN IF filled = {}
       THEN <<>>
       ELSE SubSeq(text,
                   CHOOSE i \in filled : \A j \in filled : i <= j,
                   CHOOSE i \in filled : \A j \in filled : i >= j)

RECURSIVE Characters(_)
\* the characters of the words of a text
Characters(text) ==
    IF text = <<>> THEN 0 ELSE Len(Head(text)) + Characters(Tail(text))

\* len() of a text: its characters and the blanks between its words
len(text) == IF text = <<>> THEN 0 ELSE Characters(text) + Len(text) - 1

\* validate_ticket_input, for a ticket that has both fields: is_valid
validate_ticket_input(t) ==
    IF strip(t.subject) = <<>>
    THEN FALSE
    ELSE IF strip(t.description) = <<>>
    THEN FALSE
    ELSE IF len(t.subject) > 200
    THEN FALSE
    ELSE IF len(t.description) > 5000
    THEN FALSE
    ELSE TRUE

\* the knowledge base: the documents of data/<category>_docs.json, by source
KnowledgeBase ==
    [ Billing   |-> <<"b1">>,
      Technical |-> <<"t1", "t2", "t3">>,
      Security  |-> <<"s1">>,
      General   |-> <<"g1", "g2">> ]

AllDocuments == {"b1", "t1", "t2", "t3", "s1", "g1", "g2"}

\* cosine similarities of a document to a query, in hundredths: below both
\* thresholds, between the threshold of refine_context and the default, above both
Scores == {0, 7, 50}

\* results[:k]
Take(results, k) ==
    SubSeq(results, 1, IF Len(results) < k THEN Len(results) ELSE k)

\* one step of the stable sort: doc goes behind every document that scores
\* at least as much
RECURSIVE Insert(_, _, _)
Insert(doc, sorted, sim) ==
    IF sorted = <<>>
    THEN <<doc>>
    ELSE IF sim[Head(sorted)] >= sim[doc]
         THEN <<Head(sorted)>> \o Insert(doc, Tail(sorted), sim)
         ELSE <<doc>> \o sorted

\* results.sort(key=lambda x: x['relevance_score'], reverse=True)
RECURSIVE sort(_, _)
sort(results, sim) ==
    IF results = <<>>
    THEN <<>>
    ELSE Insert(results[Len(results)],
                sort(SubSeq(results, 1, Len(results) - 1), sim), sim)

\* a category has an index: document_vectors[category] is not None
Indexed(stores, category) == stores[category] # <<>>

\* _search_category: the documents of the category at or above the
\* threshold, best first, top_k at most
_search_category(stores, sim, category, top_k, min_relevance) ==
    LET results == SelectSeq(stores[category],
                             LAMBDA doc : sim[doc] >= min_relevance)
    IN Take(sort(results, sim), top_k)

\* _get_related_categories
_get_related_categories(primary_category) ==
    CASE primary_category = "Billing"   -> <<"General">>
      [] primary_category = "Technical" -> <<"General", "Security">>
      [] primary_category = "Security"  -> <<"Technical", "General">>
      [] primary_category = "General"   -> <<"Billing", "Technical", "Security">>
      [] OTHER                          -> <<"General">>

\* the loop over the related categories: each is searched for remaining_k
\* documents until all_results has top_k
RECURSIVE search_related(_, _, _, _, _, _, _)
search_related(stores, sim, related_categories, all_results, remaining_k, top_k, min_relevance) ==
    IF related_categories = <<>> \/ Len(all_results) >= top_k
    THEN all_results
    ELSE LET related_cat == Head(related_categories)
             related_results ==
                 IF Indexed(stores, related_cat)
                 THEN _search_category(stores, sim, related_cat, remaining_k,
                                       min_relevance)
                 ELSE <<>>
         IN search_related(stores, sim, Tail(related_categories),
                           all_results \o related_results, remaining_k,
                           top_k, min_relevance)

\* all_results of retrieve_context before the final sort: the primary
\* category, or General when it has no index, then the related categories
all_results(stores, sim, category, top_k, include_related, min_relevance) ==
    LET primary ==
            IF Indexed(stores, category)
            THEN _search_category(stores, sim, category, top_k, min_relevance)
            ELSE IF Indexed(stores, "General")
                 THEN _search_category(stores, sim, "General", top_k, min_relevance)
                 ELSE <<>>
    IN IF include_related /\ Len(primary) < top_k
       THEN search_related(stores, sim, _get_related_categories(category),
                           primary, top_k - Len(primary), top_k, min_relevance)
       ELSE primary

\* final_results without the cut to top_k
final_results_uncut(stores, sim, category, top_k, include_related, min_relevance) ==
    sort(all_results(stores, sim, category, top_k, include_related,
                     min_relevance), sim)

\* final_results of retrieve_context: all_results sorted, cut to top_k
final_results(stores, sim, category, top_k, include_related, min_relevance) ==
    Take(sort(all_results(stores, sim, category, top_k, include_related,
                          min_relevance), sim),
         top_k)

(* -------------------------- gemini_client.py -------------------------- *)

\* classify_ticket handing the classifier's word on as it came
classify_ticket_uncoerced(reply) == reply

\* GeminiClient.classify_ticket: the reply when it is one of the four names,
\* General for anything else and for every failure.
classify_ticket(reply) ==
    IF reply \in Categories THEN reply ELSE "General"

\* GeminiClient.generate_intelligent_response: the reply text, or the
\* client's own fallback text when the request fails.
generate_intelligent_response(reply) ==
    IF reply = <<"http_error">> THEN <<"client_fallback">> ELSE reply

\* review_response taking a failed request for a rejection
review_response_rejects_on_failure(reply) ==
    IF reply.kind = "text"
    THEN IF reply.approved
         THEN [status |-> "approved", feedback |-> "Response meets quality standards"]
         ELSE IF reply.rejected
              THEN [status |-> "rejected", feedback |-> reply.rest]
              ELSE [status |-> "approved", feedback |-> "Review completed successfully"]
    ELSE [status |-> "rejected",
          feedback |-> "Review system unavailable, proceeding with response"]

\* GeminiClient.review_response: APPROVED is looked for first, then REJECTED.
review_response(reply) ==
    IF reply.kind = "text"
    THEN IF reply.approved
         THEN [status |-> "approved", feedback |-> "Response meets quality standards"]
         ELSE IF reply.rejected
              THEN [status |-> "rejected", feedback |-> reply.rest]
              ELSE [status |-> "approved", feedback |-> "Review completed successfully"]
    ELSE [status |-> "approved",
          feedback |-> "Review system unavailable, proceeding with response"]

(* ----------------------- intelligent_response.py ---------------------- *)

\* enhance_response_with_context adding nothing to the response
enhance_response_unchanged(response) == response

\* a confidence line before the response and a closing after it
enhance_response_with_context(response) ==
    <<"confidence">> \o response \o <<"closing">>

(* ------------------------------ nodes.py ------------------------------ *)

UpperCase == <<"A", "B", "C", "D", "E", "F", "G", "H", "I", "J", "K", "L", "M", "N", "O", "P", "Q", "R", "S", "T", "U", "V", "W", "X", "Y", "Z">>

LowerCase == <<"a", "b", "c", "d", "e", "f", "g", "h", "i", "j", "k", "l", "m", "n", "o", "p", "q", "r", "s", "t", "u", "v", "w", "x", "y", "z">>

\* str.lower() of a character, a word and a text
LowerChar(c) ==
    IF \E i \in 1..Len(UpperCase) : UpperCase[i] = c
    THEN LowerCase[CHOOSE i \in 1..Len(UpperCase) : UpperCase[i] = c]
    ELSE c

LowerWord(w) == [i \in 1..Len(w) |-> LowerChar(w[i])]

LowerText(text) == [i \in 1..Len(text) |-> LowerWord(text[i])]

\* `word in w` of Python: word is a substring of w
IsSubstring(word, w) ==
    \E i \in 1..(Len(w) - Len(word) + 1) : SubSeq(w, i, i + Len(word) - 1) = word

\* any(word in text for word in words): the words hold no space, so one is in
\* the text when it is in one of the text's words
HasAny(text, words) ==
    \E i \in 1..Len(text) : \E word \in words : IsSubstring(word, text[i])

billing_words ==
    { <<"b", "i", "l", "l">>,
      <<"p", "a", "y", "m", "e", "n", "t">>,
      <<"c", "h", "a", "r", "g", "e">>,
      <<"r", "e", "f", "u", "n", "d">>,
      <<"p", "r", "i", "c", "e">> }

technical_words ==
    { <<"a", "p", "i">>,
      <<"e", "r", "r", "o", "r">>,
      <<"b", "u", "g">>,
      <<"t", "e", "c", "h", "n", "i", "c", "a", "l">>,
      <<"i", "n", "t", "e", "g", "r", "a", "t", "i", "o", "n">> }

security_words ==
    { <<"s", "e", "c", "u", "r", "i", "t", "y">>,
      <<"p", "a", "s", "s", "w", "o", "r", "d">>,
      <<"l", "o", "g", "i", "n">>,
      <<"a", "c", "c", "e", "s", "s">>,
      <<"a", "u", "t", "h", "e", "n", "t", "i", "c", "a", "t", "i", "o", "n">> }

\* _fallback_classify with the text left in the case it was typed in
_fallback_classify_case(subject, description) ==
    LET text == subject \o description IN
    IF HasAny(text, billing_words)
    THEN "Billing"
    ELSE IF HasAny(text, technical_words)
    THEN "Technical"
    ELSE IF HasAny(text, security_words)
    THEN "Security"
    ELSE "General"

_fallback_classify(subject, description) ==
    LET text == LowerText(subject \o description) IN
    IF HasAny(text, billing_words)
    THEN "Billing"
    ELSE IF HasAny(text, technical_words)
    THEN "Technical"
    ELSE IF HasAny(text, security_words)
    THEN "Security"
    ELSE "General"

_fallback_response(category) == <<"thank_you", Lower(category)>>

\* In every handler `raised` is an exception inside the try block and
\* `reply` what the external call came back with.

classify_ticket_node(s, reply, raised) ==
    IF raised
    THEN log_state_transition(
             [s EXCEPT !.category = "General", !.status = "classified"],
             "classify_ticket")
    ELSE LET category == IF gemini_client
                         THEN classify_ticket(reply)
                         ELSE _fallback_classify(s.ticket.subject, s.ticket.description)
         IN log_state_transition(
                [s EXCEPT !.category = category, !.status = "classified"],
                "classify_ticket")

retrieve_context_node(s, docs, raised) ==
    IF raised
    THEN log_state_transition(
             [s EXCEPT !.retrieved_context = <<>>, !.status = "context_retrieved"],
             "retrieve_context")
    ELSE LET context_docs == IF rag_system THEN retrieve_context(docs) ELSE <<>>
         IN log_state_transition(
                [s EXCEPT !.retrieved_context = context_docs,
                          !.status = "context_retrieved"],
                "retrieve_context")

\* previous_feedback taking the feedback of the oldest review
previous_feedback_oldest(s) ==
    IF Len(s.review_feedback) > 0
       /\ s.review_feedback[Len(s.review_feedback)].status = "rejected"
    THEN s.review_feedback[1].feedback
    ELSE NoneStr

\* the feedback generate_response_node hands to the generator
previous_feedback(s) ==
    IF Len(s.review_feedback) > 0
       /\ s.review_feedback[Len(s.review_feedback)].status = "rejected"
    THEN s.review_feedback[Len(s.review_feedback)].feedback
    ELSE NoneStr

\* generate_response_node whose except branch leaves current_draft alone
generate_response_node_stale_draft(s, reply, raised) ==
    LET response ==
            IF raised
            THEN <<"apology", Lower(s.category)>>
            ELSE IF gemini_client
                 THEN enhance_response_with_context(generate_intelligent_response(reply))
                 ELSE _fallback_response(s.category)
    IN log_state_transition(
           [s EXCEPT !.drafts = Append(@, response),
                     !.current_draft = IF raised THEN @ ELSE response,
                     !.status = "response_generated"],
           "generate_response")

\* generate_response_node keeping only the newest draft
generate_response_node_newest_only(s, reply, raised) ==
    LET response ==
            IF raised
            THEN <<"apology", Lower(s.category)>>
            ELSE IF gemini_client
                 THEN enhance_response_with_context(generate_intelligent_response(reply))
                 ELSE _fallback_response(s.category)
    IN log_state_transition(
           [s EXCEPT !.drafts = <<response>>,
                     !.current_draft = response,
                     !.status = "response_generated"],
           "generate_response")

\* generate_response_node storing the lower-cased category of its apology
generate_response_node_lowers_category(s, reply, raised) ==
    LET response ==
            IF raised
            THEN <<"apology", Lower(s.category)>>
            ELSE IF gemini_client
                 THEN enhance_response_with_context(generate_intelligent_response(reply))
                 ELSE _fallback_response(s.category)
    IN log_state_transition(
           [s EXCEPT !.drafts = Append(@, response),
                     !.current_draft = response,
                     !.category = IF raised THEN Lower(@) ELSE @,
                     !.status = "response_generated"],
           "generate_response")

generate_response_node(s, reply, raised) ==
    LET response ==
            IF raised
            THEN <<"apology", Lower(s.category)>>
            ELSE IF gemini_client
                 THEN enhance_response_with_context(generate_intelligent_response(reply))
                 ELSE _fallback_response(s.category)
    IN log_state_transition(
           [s EXCEPT !.drafts = Append(@, response),
                     !.current_draft = response,
                     !.status = "response_generated"],
           "generate_response")

\* Python truth of current_draft
Truthy(text) == text # NoneText /\ text # <<>>

\* attempt counted from the retries
attempt_from_retries(s) == s.retries + 1

\* the attempt number of the entry a review adds
attempt(s) == Len(s.review_feedback) + 1

\* review_response_node whose except branch leaves latest_feedback alone
review_response_node_stale_feedback(s, reply, raised) ==
    LET review_result ==
            IF raised
            THEN [status |-> "approved",
                  feedback |-> "Review system unavailable, proceeding with response"]
            ELSE IF gemini_client /\ Truthy(s.current_draft)
                 THEN review_response(reply)
                 ELSE [status |-> "approved", feedback |-> "Automated review completed"]
        review_feedback ==
            [status |-> review_result.status,
             feedback |-> review_result.feedback,
             timestamp |-> "t",
             attempt |-> attempt(s)]
    IN log_state_transition(
           [s EXCEPT !.review_feedback = Append(@, review_feedback),
                     !.review_status = review_result.status,
                     !.latest_feedback = IF raised THEN @ ELSE review_result.feedback,
                     !.status = "reviewed"],
           "review_response")

review_response_node(s, reply, raised) ==
    LET review_result ==
            IF raised
            THEN [status |-> "approved",
                  feedback |-> "Review system unavailable, proceeding with response"]
            ELSE IF gemini_client /\ Truthy(s.current_draft)
                 THEN review_response(reply)
                 ELSE [status |-> "approved", feedback |-> "Automated review completed"]
        review_feedback ==
            [status |-> review_result.status,
             feedback |-> review_result.feedback,
             timestamp |-> "t",
             attempt |-> attempt(s)]
    IN log_state_transition(
           [s EXCEPT !.review_feedback = Append(@, review_feedback),
                     !.review_status = review_result.status,
                     !.latest_feedback = review_result.feedback,
                     !.status = "reviewed"],
           "review_response")

\* retries is not written here
refine_context_node(s, docs, raised) ==
    IF raised
    THEN log_state_transition([s EXCEPT !.status = "context_refined"],
                              "refine_context")
    ELSE LET refined_context == IF rag_system THEN retrieve_context(docs)
                                ELSE s.retrieved_context
         IN log_state_transition(
                [s EXCEPT !.retrieved_context = refined_context,
                          !.status = "context_refined"],
                "refine_context")

\* finalize_response_node handing out the first draft of the run
finalize_response_node_first_draft(s) ==
    log_state_transition(
        [s EXCEPT !.final_output = s.drafts[1],
                  !.status = "resolved",
                  !.processing_end_time = "t"],
        "finalize_response")

finalize_response_node(s) ==
    log_state_transition(
        [s EXCEPT !.final_output = s.current_draft,
                  !.status = "resolved",
                  !.processing_end_time = "t"],
        "finalize_response")

\* utils.save_escalation_log: the row it writes
flattened_data(escalation_data) ==
    [ ticket_subject |-> escalation_data.ticket_subject,
      category |-> escalation_data.category,
      retries |-> escalation_data.retries,
      review_count |-> Len(escalation_data.review_feedback),
      draft_count |-> Len(escalation_data.final_drafts) ]

\* the state escalate_ticket_node leaves; `raised` is an exception before
\* the state is written
escalate_ticket_node(s, raised) ==
    IF raised
    THEN log_state_transition(
             [s EXCEPT !.final_output = <<"forwarded_message">>,
                       !.escalated = TRUE,
                       !.status = "escalated"],
             "escalate_ticket")
    ELSE log_state_transition(
             [s EXCEPT !.final_output = <<"escalation_message">>,
                       !.escalated = TRUE,
                       !.status = "escalated"],
             "escalate_ticket")

(* ------------------------------ graph.py ------------------------------ *)

\* review_routing comparing the verdict with the reviewer's upper-case word
review_routing_upper(s) ==
    IF s.review_status = "APPROVED"
    THEN "finalize_response"
    ELSE IF s.retries < 2
         THEN "refine_context"
         ELSE "escalate_ticket"

\* review_routing with the retry threshold off by one
review_routing_off_by_one(s) ==
    IF s.review_status = "approved"
    THEN "finalize_response"
    ELSE IF s.retries <= 2
         THEN "refine_context"
         ELSE "escalate_ticket"

\* review_routing: the node that follows review_response
review_routing(s) ==
    IF s.review_status = "approved"
    THEN "finalize_response"
    ELSE IF s.retries < 2
         THEN "refine_context"
         ELSE "escalate_ticket"

\* retries as the edge refine_context -> generate_response leaves it: the
\* edge is a plain add_edge, increment_retry_and_generate is defined beside
\* it and never added to the graph
refine_to_generate_edge(retries) == retries

\* how the external call of a handler went: no call was made (the client is
\* missing, or the handler raised), or the kind of its reply
CallOf(node, client, raised, kind) ==
    [ node |-> node,
      reply |-> IF client /\ ~raised THEN kind ELSE "none",
      raised |-> raised ]

NoCall == [node |-> "", reply |-> "none", raised |-> FALSE]

\* the handler made no call
NoExchange == [sent |-> NoneStr, received |-> NoneStr]

ClassifierKind(reply) ==
    IF reply \in Categories THEN "valid"
    ELSE IF reply \in {"http_error", "exception"} THEN "failed" ELSE "invalid"

GeneratorKind(reply) == IF reply = <<"http_error">> THEN "failed" ELSE "ok"

ReviewerKind(reply) == IF reply.kind = "text" THEN "ok" ELSE "failed"

RetrieverKind(docs) == IF docs = <<"exception">> THEN "failed" ELSE "ok"

\* a node may run: the invocation is in flight and the executor has
\* supersteps left
Running(node) ==
    /\ pc = node
    /\ ~graph_raised
    /\ steps < RecursionLimit

\* what a superstep leaves alone
Superstep(next) ==
    /\ pc' = next
    /\ steps' = steps + 1
    /\ failed_calls' = IF last_call'.reply = "failed"
                       THEN failed_calls \cup {last_call'.node}
                       ELSE failed_calls
    /\ UNCHANGED <<ticket, gemini_client, rag_system, graph_raised, outcome>>
    /\ UNCHANGED component_vars

ClassifyTicket ==
    /\ Running("classify_ticket")
    /\ \E reply \in ClassifierReplies, raised \in BOOLEAN :
           /\ state' = classify_ticket_node(state, reply, raised)
           /\ last_exchange' = NoExchange
           /\ last_call' = CallOf("classify_ticket", gemini_client, raised,
                                  ClassifierKind(reply))
    /\ Superstep("retrieve_context")
    /\ UNCHANGED escalation_log

RetrieveContext ==
    /\ Running("retrieve_context")
    /\ \E docs \in RetrieverResults, raised \in BOOLEAN :
           /\ state' = retrieve_context_node(state, docs, raised)
           /\ last_exchange' = NoExchange
           /\ last_call' = CallOf("retrieve_context", rag_system, raised,
                                  RetrieverKind(docs))
    /\ Superstep("generate_response")
    /\ UNCHANGED escalation_log

GenerateResponse ==
    /\ Running("generate_response")
    /\ \E reply \in GeneratorReplies, raised \in BOOLEAN :
           /\ state' = generate_response_node(state, reply, raised)
           /\ last_call' = CallOf("generate_response", gemini_client, raised,
                                  GeneratorKind(reply))
           /\ last_exchange' = IF gemini_client /\ ~raised
                                THEN [sent |-> previous_feedback(state),
                                      received |-> reply]
                                ELSE NoExchange
    /\ Superstep("review_response")
    /\ UNCHANGED escalation_log

ReviewResponse ==
    /\ Running("review_response")
    /\ \E reply \in ReviewerReplies, raised \in BOOLEAN :
           /\ state' = review_response_node(state, reply, raised)
           /\ last_call' = CallOf("review_response",
                                  gemini_client /\ Truthy(state.current_draft),
                                  raised, ReviewerKind(reply))
           /\ last_exchange' = IF gemini_client /\ Truthy(state.current_draft) /\ ~raised
                                THEN [sent |-> state.current_draft,
                                      received |-> reply]
                                ELSE NoExchange
           /\ Superstep(review_routing(state'))
    /\ UNCHANGED escalation_log

RefineContext ==
    /\ Running("refine_context")
    /\ \E docs \in RetrieverResults, raised \in BOOLEAN :
           /\ state' = [refine_context_node(state, docs, raised)
                           EXCEPT !.retries = refine_to_generate_edge(@)]
           /\ last_exchange' = NoExchange
           /\ last_call' = CallOf("refine_context", rag_system, raised,
                                  RetrieverKind(docs))
    /\ Superstep("generate_response")
    /\ UNCHANGED escalation_log

FinalizeResponse ==
    /\ Running("finalize_response")
    /\ state' = finalize_response_node(state)
    /\ last_exchange' = NoExchange
    /\ last_call' = CallOf("finalize_response", FALSE, FALSE, "none")
    /\ Superstep(END)
    /\ UNCHANGED escalation_log

\* EscalateTicket with a failed write ending the handler before it has
\* written the state
EscalateTicket_stops_at_failed_write ==
    /\ Running("escalate_ticket")
    /\ \E written \in BOOLEAN, raised \in BOOLEAN :
           /\ state' = IF written THEN escalate_ticket_node(state, raised) ELSE state
           /\ last_exchange' = NoExchange
           /\ last_call' = CallOf("escalate_ticket", TRUE, raised,
                                  IF written THEN "ok" ELSE "failed")
           /\ escalation_log' =
                  IF written /\ ~raised
                  THEN Append(escalation_log,
                              flattened_data(
                                  [ticket_subject |-> state.ticket.subject,
                                   category |-> state.category,
                                   retries |-> state.retries,
                                   review_feedback |-> state.review_feedback,
                                   final_drafts |-> state.drafts]))
                  ELSE escalation_log
    /\ Superstep(END)

\* escalate_ticket_node with save_escalation_log: `written` is whether the
\* row reached the file
EscalateTicket ==
    /\ Running("escalate_ticket")
    /\ \E written \in BOOLEAN, raised \in BOOLEAN :
           /\ state' = escalate_ticket_node(state, raised)
           /\ last_exchange' = NoExchange
           /\ last_call' = CallOf("escalate_ticket", TRUE, raised,
                                  IF written THEN "ok" ELSE "failed")
           /\ escalation_log' =
                  IF written /\ ~raised
                  THEN Append(escalation_log,
                              flattened_data(
                                  [ticket_subject |-> state.ticket.subject,
                                   category |-> state.category,
                                   retries |-> state.retries,
                                   review_feedback |-> state.review_feedback,
                                   final_drafts |-> state.drafts]))
                  ELSE escalation_log
    /\ Superstep(END)

\* the executor is out of supersteps with a node still to run
GraphRecursionError ==
    /\ pc # END
    /\ ~graph_raised
    /\ steps = RecursionLimit
    /\ graph_raised' = TRUE
    /\ UNCHANGED <<ticket, gemini_client, rag_system, state, pc, steps,
                   escalation_log, outcome, last_call, failed_calls, last_exchange>>
    /\ UNCHANGED component_vars

(* ------------------------------- app.py ------------------------------- *)

NoOutcome ==
    [ status |-> "pending", category |-> "", final_output |-> <<>>,
      retries |-> 0, escalated |-> FALSE, drafts |-> <<>>,
      review_feedback |-> <<>> ]

\* process_ticket_async, after agent.ainvoke returned
result_data(result) ==
    [ status |-> result.status,
      category |-> result.category,
      final_output |-> result.final_output,
      retries |-> result.retries,
      escalated |-> result.escalated,
      drafts |-> result.drafts,
      review_feedback |-> result.review_feedback ]

\* process_ticket_async, the except branch
error_data ==
    [ status |-> "error",
      category |-> "Error",
      final_output |-> <<"Error processing ticket: ", "GraphRecursionError">>,
      retries |-> 0,
      escalated |-> TRUE,
      drafts |-> <<>>,
      review_feedback |-> <<>> ]

ReturnResult ==
    /\ pc = END
    /\ outcome = NoOutcome
    /\ outcome' = result_data(state)
    /\ UNCHANGED <<ticket, gemini_client, rag_system, state, pc, steps,
                   graph_raised, escalation_log, last_call, failed_calls, last_exchange>>
    /\ UNCHANGED component_vars

ReturnError ==
    /\ graph_raised
    /\ outcome = NoOutcome
    /\ outcome' = error_data
    /\ UNCHANGED <<ticket, gemini_client, rag_system, state, pc, steps,
                   graph_raised, escalation_log, last_call, failed_calls, last_exchange>>
    /\ UNCHANGED component_vars

\* main, the submit branch: blank fields and a missing key stop here, every
\* other ticket is stripped and handed to process_ticket_async
Main ==
    /\ pc = "main"
    /\ \E gemini_key \in BOOLEAN :
           IF strip(ticket.subject) = <<>> \/ strip(ticket.description) = <<>>
           THEN pc' = "rejected" /\ state' = state
           ELSE IF ~gemini_key
           THEN pc' = "rejected" /\ state' = state
           ELSE /\ state' = create_initial_state(
                                [subject |-> strip(ticket.subject),
                                 description |-> strip(ticket.description)])
                /\ pc' = "classify_ticket"
    /\ UNCHANGED <<ticket, gemini_client, rag_system, steps, graph_raised,
                   escalation_log, outcome, last_call, failed_calls, last_exchange>>
    /\ UNCHANGED component_vars

(* ------------------- two executions side by side --------------------- *)

\* the executions that run at the same time
Runs == {"first", "second"}

\* the list objects of every call of create_initial_state being the same
\* three
shared_lists(r) ==
    [ drafts |-> <<"module", "drafts">>,
      review_feedback |-> <<"module", "review_feedback">>,
      node_execution_log |-> <<"module", "node_execution_log">> ]

\* create_initial_state: the lists are made anew by each call; the
\* addresses of the three that the handlers append to
new_lists(r) ==
    [ drafts |-> <<r, "drafts">>,
      review_feedback |-> <<r, "review_feedback">>,
      node_execution_log |-> <<r, "node_execution_log">> ]

\* the state of an execution with its lists read from the heap
state_of(h, rs, r) ==
    [rs[r].state EXCEPT !.drafts = h[@],
                        !.review_feedback = h[@],
                        !.node_execution_log = h[@]]

\* what the handlers of a node can be answered with, side by side
ConcurrentInputs(node) ==
    CASE node = "classify_ticket" ->
             {[node |-> node, reply |-> "Billing", raised |-> FALSE]}
      [] node = "retrieve_context" ->
             {[node |-> node, reply |-> docs, raised |-> FALSE] :
                  docs \in {<<"d2", "d1">>, <<"exception">>}}
      [] node = "generate_response" ->
             {[node |-> node, reply |-> <<"llm">>, raised |-> raised] :
                  raised \in BOOLEAN}
      [] node = "review_response" ->
             {[node |-> node, reply |-> reply, raised |-> FALSE] :
                  reply \in {x \in ReviewerReplies : x.kind = "text" /\ x.approved # x.rejected}}
      [] node = "refine_context" ->
             {[node |-> node, reply |-> <<>>, raised |-> FALSE]}
      [] OTHER ->
             {[node |-> node, reply |-> <<>>, raised |-> FALSE]}

\* the handler of a node, and the edge out of it
handler(s, input) ==
    CASE input.node = "classify_ticket" ->
             classify_ticket_node(s, input.reply, input.raised)
      [] input.node = "retrieve_context" ->
             retrieve_context_node(s, input.reply, input.raised)
      [] input.node = "generate_response" ->
             generate_response_node(s, input.reply, input.raised)
      [] input.node = "review_response" ->
             review_response_node(s, input.reply, input.raised)
      [] input.node = "refine_context" ->
             [refine_context_node(s, input.reply, input.raised)
                 EXCEPT !.retries = refine_to_generate_edge(@)]
      [] input.node = "finalize_response" ->
             finalize_response_node(s)
      [] input.node = "escalate_ticket" ->
             escalate_ticket_node(s, input.raised)

edge(node, s) ==
    CASE node = "classify_ticket" -> "retrieve_context"
      [] node = "retrieve_context" -> "generate_response"
      [] node = "generate_response" -> "review_response"
      [] node = "review_response" -> review_routing(s)
      [] node = "refine_context" -> "generate_response"
      [] node = "finalize_response" -> END
      [] node = "escalate_ticket" -> END

\* process_ticket_async of one of the executions: create_initial_state
StartRun ==
    \E r \in Runs :
        /\ runs[r].pc = "start"
        /\ LET lists == new_lists(r)
               created == create_initial_state(runs[r].ticket)
           IN /\ heap' = [a \in DOMAIN heap \cup {lists.drafts, lists.review_feedback,
                                                   lists.node_execution_log} |->
                              IF a \in DOMAIN heap THEN heap[a] ELSE <<>>]
              /\ runs' = [runs EXCEPT
                             ![r].state = [created EXCEPT
                                              !.drafts = lists.drafts,
                                              !.review_feedback = lists.review_feedback,
                                              !.node_execution_log = lists.node_execution_log],
                             ![r].pc = "classify_ticket"]
        /\ UNCHANGED <<ticket, gemini_client, rag_system, state, pc, steps,
                       graph_raised, escalation_log, outcome, last_call,
                       failed_calls, last_exchange, csv_file, writers>>
        /\ UNCHANGED <<rag_vars, restart_vars>>

\* one handler of one of the executions: it works on the lists its state
\* points to
RunNode ==
    \E r \in Runs :
        /\ runs[r].pc \notin {"start", END}
        /\ Len(runs[r].inputs) < ConcurrentSteps
        /\ \E input \in ConcurrentInputs(runs[r].pc) :
               LET s == handler(state_of(heap, runs, r), input)
                   own == runs[r].state
               IN /\ heap' = [heap EXCEPT
                                 ![own.drafts] = s.drafts,
                                 ![own.review_feedback] = s.review_feedback,
                                 ![own.node_execution_log] = s.node_execution_log]
                  /\ runs' = [runs EXCEPT
                                 ![r].state = [s EXCEPT
                                     !.drafts = own.drafts,
                                     !.review_feedback = own.review_feedback,
                                     !.node_execution_log = own.node_execution_log],
                                 ![r].pc = edge(input.node, s),
                                 ![r].inputs = Append(@, input)]
        /\ UNCHANGED <<ticket, gemini_client, rag_system, state, pc, steps,
                       graph_raised, escalation_log, outcome, last_call,
                       failed_calls, last_exchange, csv_file, writers>>
        /\ UNCHANGED <<rag_vars, restart_vars>>

(* ---------------- save_escalation_log, step by step ------------------ *)

\* the executions that escalate at the same time
Writers == {"first", "second"}

\* the single-run variables stay as they are
writer_step(w, next) ==
    /\ writers' = [writers EXCEPT ![w] = next]
    /\ UNCHANGED <<ticket, gemini_client, rag_system, state, pc, steps,
                   graph_raised, escalation_log, outcome, last_call, failed_calls,
                   last_exchange, heap, runs>>
    /\ UNCHANGED <<rag_vars, restart_vars>>

\* file_exists = os.path.exists(csv_file)
FileExists ==
    \E w \in Writers :
        /\ writers[w].at = "exists"
        /\ writer_step(w, [writers[w] EXCEPT !.at = "open",
                                             !.file_exists = csv_file.exists])
        /\ UNCHANGED csv_file

\* open(csv_file, 'a') creates the file when it is not there
OpenFile ==
    \E w \in Writers :
        /\ writers[w].at = "open"
        /\ csv_file' = [csv_file EXCEPT !.exists = TRUE]
        /\ writer_step(w, [writers[w] EXCEPT !.at = "header"])

\* writer.writeheader() when the file was not there; the line goes to the
\* buffer of the file object
WriteHeader ==
    \E w \in Writers :
        /\ writers[w].at = "header"
        /\ writer_step(w, [writers[w] EXCEPT
                              !.at = "row",
                              !.buffer = IF writers[w].file_exists
                                         THEN @
                                         ELSE Append(@, [line |-> "header"])])
        /\ UNCHANGED csv_file

\* writer.writerow(flattened_data), to the buffer as well
WriteRow ==
    \E w \in Writers :
        /\ writers[w].at = "row"
        /\ writer_step(w, [writers[w] EXCEPT
                              !.at = "close",
                              !.buffer = Append(@, [line |-> "row", of |-> w,
                                                    data |-> writers[w].row])])
        /\ UNCHANGED csv_file

\* the end of the with block: the buffer is appended to the file
CloseFile ==
    \E w \in Writers :
        /\ writers[w].at = "close"
        /\ csv_file' = [csv_file EXCEPT !.lines = @ \o writers[w].buffer]
        /\ writer_step(w, [writers[w] EXCEPT !.at = "done", !.buffer = <<>>])

(* --------------------------- specification ---------------------------- *)

\* no execution is inside save_escalation_log, no two run side by side
NoRag ==
    /\ document_stores = <<>>
    /\ similarities = <<>>

NoRestart ==
    /\ in_flight = FALSE
    /\ checkpoint = NoState

NoComponents ==
    /\ csv_file = [exists |-> FALSE, lines |-> <<>>]
    /\ writers = <<>>
    /\ heap = <<>>
    /\ runs = <<>>
    /\ NoRag
    /\ NoRestart

\* initialize_components sets gemini_client before rag_system and stops at
\* the first constructor that raises
Init ==
    /\ ticket \in Tickets
    /\ gemini_client \in BOOLEAN
    /\ rag_system \in BOOLEAN
    /\ rag_system => gemini_client
    /\ state = create_initial_state(ticket)
    /\ pc = "classify_ticket"
    /\ steps = 0
    /\ graph_raised = FALSE
    /\ escalation_log = <<>>
    /\ outcome = NoOutcome
    /\ last_call = NoCall
    /\ failed_calls = {}
    /\ last_exchange = NoExchange
    /\ NoComponents

\* escalate_ticket is no disjunct: no run started by create_initial_state
\* reaches it (EscalateUnreachable)
Next ==
    \/ ClassifyTicket
    \/ RetrieveContext
    \/ GenerateResponse
    \/ ReviewResponse
    \/ RefineContext
    \/ FinalizeResponse
    \/ GraphRecursionError
    \/ ReturnResult
    \/ ReturnError

Spec == Init /\ [][Next]_vars

\* the executor and the caller keep going while they have something to do
FairSpec == Spec /\ WF_vars(Next)

\* The classification stage alone, without a client, over HeuristicTickets.
HeuristicInit ==
    /\ ticket \in HeuristicTickets
    /\ gemini_client = FALSE
    /\ rag_system = FALSE
    /\ state = create_initial_state(ticket)
    /\ pc = "classify_ticket"
    /\ steps = 0
    /\ graph_raised = FALSE
    /\ escalation_log = <<>>
    /\ outcome = NoOutcome
    /\ last_call = NoCall
    /\ failed_calls = {}
    /\ last_exchange = NoExchange
    /\ NoComponents

HeuristicNext == ClassifyTicket

HeuristicSpec == HeuristicInit /\ [][HeuristicNext]_vars

\* The way from the form into the graph: ticket is what was typed in.
SubmitInit ==
    /\ ticket \in SubmittedTickets
    /\ gemini_client \in BOOLEAN
    /\ rag_system \in BOOLEAN
    /\ rag_system => gemini_client
    /\ state = NoState
    /\ pc = "main"
    /\ steps = 0
    /\ graph_raised = FALSE
    /\ escalation_log = <<>>
    /\ outcome = NoOutcome
    /\ last_call = NoCall
    /\ failed_calls = {}
    /\ last_exchange = NoExchange
    /\ NoComponents

\* from the form to the entry point of the graph; every run of the graph
\* begins with classify_ticket
SubmitNext == Main \/ ClassifyTicket

SubmitSpec == SubmitInit /\ [][SubmitNext]_vars

\* A state as review_routing hands it to escalate_ticket: reviewed, the last
\* verdict a rejection, retries at 2 or more. No run that starts from
\* create_initial_state gets there; the graph takes such a state from a
\* caller of agent.ainvoke.
rejected_state(t, category, docs, retries) ==
    LET rejection(i) == [status |-> "rejected", feedback |-> "too vague",
                         timestamp |-> "t", attempt |-> i]
        draft == enhance_response_with_context(<<"llm">>)
    IN [create_initial_state(t) EXCEPT
            !.category = category,
            !.retrieved_context = docs,
            !.drafts = [i \in 1..(retries + 1) |-> draft],
            !.current_draft = draft,
            !.review_feedback = [i \in 1..(retries + 1) |-> rejection(i)],
            !.review_status = "rejected",
            !.latest_feedback = "too vague",
            !.retries = retries,
            !.status = "reviewed",
            !.node_execution_log =
                <<"classify_ticket", "retrieve_context">>
                    \o [i \in 1..(3 * retries + 2) |->
                           CASE i % 3 = 1 -> "generate_response"
                             [] i % 3 = 2 -> "review_response"
                             [] OTHER -> "refine_context"]]

\* The escalation stage alone, on the states the router sends to it.
EscalationInit ==
    /\ ticket \in Tickets
    /\ gemini_client = TRUE
    /\ rag_system \in BOOLEAN
    /\ \E category \in Categories, docs \in {<<>>, <<"d2", "d1">>} :
           state = rejected_state(ticket, category, docs, 2)
    /\ review_routing(state) = "escalate_ticket"
    /\ pc = "escalate_ticket"
    /\ steps = 3 * state.retries + 4
    /\ graph_raised = FALSE
    /\ escalation_log = <<>>
    /\ outcome = NoOutcome
    /\ last_call = [node |-> "review_response", reply |-> "ok", raised |-> FALSE]
    /\ failed_calls = {}
    /\ last_exchange = NoExchange
    /\ NoComponents

EscalationNext == EscalateTicket \/ ReturnResult

EscalationSpec == EscalationInit /\ [][EscalationNext]_vars

\* Two executions that have been sent to escalate_ticket and call
\* save_escalation_log at the same time; the file is not there yet, or holds
\* its header, or its header and an older row.
SinkInit ==
    /\ ticket \in Tickets
    /\ gemini_client = TRUE
    /\ rag_system = TRUE
    /\ state = NoState
    /\ pc = "escalate_ticket"
    /\ steps = 0
    /\ graph_raised = FALSE
    /\ escalation_log = <<>>
    /\ outcome = NoOutcome
    /\ last_call = NoCall
    /\ failed_calls = {}
    /\ last_exchange = NoExchange
    /\ csv_file \in { [exists |-> FALSE, lines |-> <<>>],
                       [exists |-> TRUE, lines |-> <<[line |-> "header"]>>],
                       [exists |-> TRUE,
                        lines |-> <<[line |-> "header"],
                                    [line |-> "row", of |-> "earlier",
                                     data |-> flattened_data(
                                         [ticket_subject |-> ticket.subject,
                                          category |-> "General",
                                          retries |-> 2,
                                          review_feedback |-> <<>>,
                                          final_drafts |-> <<>>])]>>] }
    /\ heap = <<>>
    /\ runs = <<>>
    /\ NoRag
    /\ NoRestart
    /\ \E category \in [Writers -> {"Billing", "General"}] :
           writers = [w \in Writers |->
                         [at |-> "exists",
                          file_exists |-> FALSE,
                          buffer |-> <<>>,
                          row |-> LET s == rejected_state(ticket, category[w], <<>>, 2)
                                  IN flattened_data(
                                         [ticket_subject |-> s.ticket.subject,
                                          category |-> s.category,
                                          retries |-> s.retries,
                                          review_feedback |-> s.review_feedback,
                                          final_drafts |-> s.drafts])]]

SinkNext == FileExists \/ OpenFile \/ WriteHeader \/ WriteRow \/ CloseFile

SinkSpec == SinkInit /\ [][SinkNext]_vars

\* Two tickets submitted at the same time, each to its own call of
\* process_ticket_async, on the shared client and retriever.
ConcurrentInit ==
    /\ ticket \in Tickets
    /\ gemini_client = TRUE
    /\ rag_system = TRUE
    /\ state = NoState
    /\ pc = "main"
    /\ steps = 0
    /\ graph_raised = FALSE
    /\ escalation_log = <<>>
    /\ outcome = NoOutcome
    /\ last_call = NoCall
    /\ failed_calls = {}
    /\ last_exchange = NoExchange
    /\ csv_file = [exists |-> FALSE, lines |-> <<>>]
    /\ writers = <<>>
    /\ heap = <<>>
    /\ NoRag
    /\ NoRestart
    /\ \E other \in Tickets :
           runs = [r \in Runs |->
                      [ticket |-> IF r = "first" THEN ticket ELSE other,
                       state |-> NoState,
                       pc |-> "start",
                       inputs |-> <<>>]]

ConcurrentNext == StartRun \/ RunNode

ConcurrentSpec == ConcurrentInit /\ [][ConcurrentNext]_vars

\* the router never hands a run to escalate_ticket
(* --------------- the handlers on an indexed knowledge base ------------ *)

\* the superstep of a handler that searches document_stores
store_step ==
    /\ pc' = "generate_response"
    /\ steps' = steps + 1
    /\ last_exchange' = NoExchange
    /\ UNCHANGED <<ticket, gemini_client, rag_system, graph_raised,
                   escalation_log, outcome, failed_calls>>
    /\ UNCHANGED <<csv_file, writers, heap, runs, rag_vars, restart_vars>>

\* retrieve_context_node: top_k=3, include_related, the default threshold
RetrieveFromStores ==
    /\ pc = "retrieve_context"
    /\ state' = retrieve_context_node(
                     state,
                     final_results(document_stores, similarities,
                                   state.category, 3, TRUE, 10),
                     FALSE)
    /\ last_call' = CallOf("retrieve_context", rag_system, FALSE, "ok")
    /\ store_step

\* refine_context_node: top_k=5, include_related, min_relevance=0.05
RefineFromStores ==
    /\ pc = "refine_context"
    /\ state' = [refine_context_node(
                      state,
                      final_results(document_stores, similarities,
                                    state.category, 5, TRUE, 5),
                      FALSE)
                    EXCEPT !.retries = refine_to_generate_edge(@)]
    /\ last_call' = CallOf("refine_context", rag_system, FALSE, "ok")
    /\ store_step

\* a classified ticket about to be looked up, or a rejected first draft
\* about to have its context refined, over every choice of which categories
\* have documents and of how each document scores against the query
RagInit ==
    /\ ticket \in {t \in Tickets : Len(t.subject) = 1}
    /\ gemini_client = TRUE
    /\ rag_system = TRUE
    /\ \E indexed \in SUBSET Categories :
           document_stores = [c \in Categories |->
                                 IF c \in indexed THEN KnowledgeBase[c] ELSE <<>>]
    /\ similarities \in [AllDocuments -> Scores]
    /\ \E category \in Categories :
           \/ /\ pc = "retrieve_context"
              /\ state = classify_ticket_node(create_initial_state(ticket),
                                              category, FALSE)
              /\ steps = 1
              /\ last_call = [node |-> "classify_ticket", reply |-> "valid",
                              raised |-> FALSE]
           \/ /\ pc = "refine_context"
              /\ state = rejected_state(ticket, category, <<>>, 0)
              /\ steps = 4
              /\ last_call = [node |-> "review_response", reply |-> "ok",
                              raised |-> FALSE]
    /\ graph_raised = FALSE
    /\ escalation_log = <<>>
    /\ outcome = NoOutcome
    /\ failed_calls = {}
    /\ last_exchange = NoExchange
    /\ csv_file = [exists |-> FALSE, lines |-> <<>>]
    /\ writers = <<>>
    /\ heap = <<>>
    /\ runs = <<>>
    /\ NoRestart

RagNext == RetrieveFromStores \/ RefineFromStores

RagSpec == RagInit /\ [][RagNext]_vars

(* ------------- a stage abandoned and restarted from checkpoint -------- *)

\* the stages whose handler waits for an external call (classification,
\* retrieval, generation, review)
HasCall(node) ==
    node \in {"classify_ticket", "retrieve_context", "generate_response",
              "review_response", "refine_context"}

\* a handler that has its log entry written before it makes its call
before_call_logged(node, s) == log_state_transition(s, node)

\* the state as a handler has left it when it starts waiting for its
\* external call: it has read ticket, category, the context and the reviews
\* into locals and written nothing
before_call(node, s) == s

\* what a step of a restartable run leaves alone
restart_step ==
    /\ UNCHANGED <<ticket, gemini_client, rag_system, graph_raised,
                   escalation_log, outcome, last_exchange>>
    /\ UNCHANGED <<csv_file, writers, heap, runs, rag_vars>>

\* a handler runs up to its external call and waits
BeginStage ==
    /\ ~in_flight
    /\ HasCall(pc)
    /\ steps < RecursionLimit
    /\ in_flight' = TRUE
    /\ state' = before_call(pc, state)
    /\ UNCHANGED <<pc, steps, checkpoint, last_call, failed_calls>>
    /\ restart_step

\* the call returns (or the handler makes none), the handler writes the
\* state and the checkpointer saves it
FinishStage ==
    /\ pc # END
    /\ steps < RecursionLimit
    /\ in_flight \/ ~HasCall(pc)
    /\ \E input \in ConcurrentInputs(pc) :
           /\ state' = handler(state, input)
           /\ last_call' = [node |-> pc, reply |-> "ok", raised |-> input.raised]
    /\ checkpoint' = state'
    /\ pc' = edge(pc, state')
    /\ steps' = steps + 1
    /\ in_flight' = FALSE
    /\ UNCHANGED failed_calls
    /\ restart_step

\* the run is cancelled while the call is in flight; it is resumed from the
\* last checkpoint with the stage still to run.  failed_calls keeps the
\* stages whose call was abandoned
AbandonStage ==
    /\ in_flight
    /\ in_flight' = FALSE
    /\ state' = checkpoint
    /\ last_call' = [node |-> pc, reply |-> "abandoned", raised |-> FALSE]
    /\ failed_calls' = failed_calls \cup {pc}
    /\ UNCHANGED <<pc, steps, checkpoint>>
    /\ restart_step

RestartInit ==
    /\ ticket \in Tickets
    /\ gemini_client = TRUE
    /\ rag_system = TRUE
    /\ state = create_initial_state(ticket)
    /\ checkpoint = state
    /\ in_flight = FALSE
    /\ pc = "classify_ticket"
    /\ steps = 0
    /\ graph_raised = FALSE
    /\ escalation_log = <<>>
    /\ outcome = NoOutcome
    /\ last_call = NoCall
    /\ failed_calls = {}
    /\ last_exchange = NoExchange
    /\ csv_file = [exists |-> FALSE, lines |-> <<>>]
    /\ writers = <<>>
    /\ heap = <<>>
    /\ runs = <<>>
    /\ NoRag

RestartNext == BeginStage \/ FinishStage \/ AbandonStage

RestartSpec == RestartInit /\ [][RestartNext]_vars

EscalateUnreachable == pc # "escalate_ticket"

(* ------------------------------- claims ------------------------------- *)

\* the reviews so far, oldest first, by verdict
Verdicts == [i \in 1..Len(state.review_feedback) |-> state.review_feedback[i].status]

\* process_ticket_async has returned
Returned == outcome # NoOutcome

\* C1: every run, whatever the reviewer answers, eventually reaches END
\* (through finalize_response or escalate_ticket) with status resolved or
\* escalated.
C1_RunReachesEnd ==
    <>(pc = END /\ state.status \in {"resolved", "escalated"})

\* C2: every traversal refine_context -> generate_response adds exactly 1 to
\* retries, and no other step changes retries.
C2_RetryCountedOnLoop ==
    [][IF pc = "refine_context" /\ pc' = "generate_response"
       THEN state'.retries = state.retries + 1
       ELSE state'.retries = state.retries]_vars

\* C3: no run generates more than 3 drafts.
C3_AtMostThreeDrafts == Len(state.drafts) <= 3

\* C4: when the first three reviews of a run are rejections, the third one
\* is routed to escalate_ticket.
C4_ThirdRejectionEscalates ==
    (state.status = "reviewed" /\ Verdicts = <<"rejected", "rejected", "rejected">>)
        => pc = "escalate_ticket"

\* C5: after a review that ends approved the next node is finalize_response,
\* and the next handler that runs is the finalize handler.
C5_ApprovedGoesToFinalize ==
    /\ [](state.status = "reviewed" /\ state.review_status = "approved"
             => pc = "finalize_response")
    /\ [][(state.status = "reviewed" /\ state.review_status = "approved"
             /\ state'.node_execution_log # state.node_execution_log)
          => state'.node_execution_log
                 = Append(state.node_execution_log, "finalize_response")]_vars

\* C5, its case: a draft approved after a rejection has been finalized
C5_Witness ==
    /\ pc = END
    /\ Verdicts = <<"rejected", "approved">>
    /\ state.status = "resolved"

\* C6: retries stays within 0..2 and never decreases, and with retries = 2
\* the router does not choose refine_context, in the run and for every
\* verdict the router can be given.
C6_RetriesBounded ==
    /\ [](/\ state.retries \in 0..2
          /\ state.retries = 2 => pc # "refine_context"
          /\ \A v \in {"approved", "rejected", NoneStr} :
                review_routing([state EXCEPT !.retries = 2, !.review_status = v])
                    # "refine_context")
    /\ [][state'.retries >= state.retries]_vars

\* C6, its case: the router has sent a second rejection back to refinement
C6_Witness ==
    /\ pc = "refine_context"
    /\ Verdicts = <<"rejected", "rejected">>
    /\ state.retries \in 0..2

\* C7: from the first generation on, and so in every terminal state,
\* len(drafts) = retries + 1.
C7_DraftsAreRetriesPlusOne ==
    state.status \in {"response_generated", "reviewed", "context_refined",
                      "resolved", "escalated"}
        => Len(state.drafts) = state.retries + 1

\* C8: a run whose reviews are rejected, rejected, approved ends with
\* retries = 2, status resolved, 3 drafts and 3 review entries.
C8_RejectRejectApprove ==
    (pc = END /\ Verdicts = <<"rejected", "rejected", "approved">>)
        => /\ state.retries = 2
           /\ state.status = "resolved"
           /\ Len(state.drafts) = 3
           /\ Len(state.review_feedback) = 3

\* C9: a run whose first three reviews are rejections ends escalated, with
\* retries = 2 and an escalation row whose draft_count is 3.
C9_ThreeRejectionsEscalate ==
    (Returned /\ Len(Verdicts) >= 3
       /\ \A i \in 1..3 : Verdicts[i] = "rejected")
        => /\ outcome.retries = 2
           /\ outcome.status = "escalated"
           /\ outcome.escalated
           /\ \E i \in 1..Len(escalation_log) : escalation_log[i].draft_count = 3

\* C10: what process_ticket_async returns has status resolved or escalated
\* and never carries the text of an internal error.
C10_NeverReturnsError ==
    Returned
        => /\ outcome.status \in {"resolved", "escalated"}
           /\ outcome.final_output # error_data.final_output

\* the handlers that have run so far, oldest first
Log == state.node_execution_log

\* the handler that ran last
LastNode == IF Len(Log) = 0 THEN "" ELSE Log[Len(Log)]

\* how many times the handler of a node has run
Invocations(node) == Cardinality({i \in 1..Len(Log) : Log[i] = node})

\* list a is a prefix of list b
IsPrefix(a, b) == Len(a) <= Len(b) /\ SubSeq(b, 1, Len(a)) = a

\* C11: a returned outcome has escalated = True exactly when the run wrote a
\* row to the escalation log, and then exactly one row.
C11_RowIffEscalated ==
    Returned
        => /\ outcome.escalated <=> Len(escalation_log) > 0
           /\ Len(escalation_log) <= 1

\* C12: final_output is non-empty exactly when status is resolved or
\* escalated, in every state of a run and after the escalation handler,
\* whatever the generator answered.
C12_FinalOutputIffTerminal ==
    /\ Truthy(state.final_output) <=> state.status \in {"resolved", "escalated"}
    /\ \A raised \in BOOLEAN :
          LET s == escalate_ticket_node(state, raised)
          IN Truthy(s.final_output) /\ s.status = "escalated"

\* C12, its case: a run whose generator answered with an empty text is resolved
C12_Witness ==
    /\ state.status = "resolved"
    /\ gemini_client
    /\ \E i \in 1..Len(state.drafts) :
          state.drafts[i] = enhance_response_with_context(<<>>)
    /\ Truthy(state.final_output)

\* C13: escalated is True, in the state and in the returned outcome, exactly
\* when the last handler that ran is escalate_ticket; then status is
\* escalated and final_output is a message of the escalation handler.
C13_EscalatedIffEscalateStage ==
    /\ state.escalated <=> LastNode = "escalate_ticket"
    /\ Returned
          => /\ outcome.escalated <=> LastNode = "escalate_ticket"
             /\ outcome.escalated
                   => /\ outcome.status = "escalated"
                      /\ outcome.final_output
                             \in {<<"escalation_message">>, <<"forwarded_message">>}

\* C14: review_feedback has one entry for each time the review handler has
\* run, and the i-th entry has attempt = i.
C14_OneEntryPerReview ==
    /\ Len(state.review_feedback) = Invocations("review_response")
    /\ \A i \in 1..Len(state.review_feedback) :
          state.review_feedback[i].attempt = i

\* C14, its case: a second review has gone through the except branch
C14_Witness ==
    /\ Len(state.review_feedback) = 2
    /\ last_call.node = "review_response"
    /\ last_call.raised

\* C15: once a review has run, review_status and latest_feedback are the
\* status and the feedback of the last entry of review_feedback.
C15_MirrorsLastReview ==
    Invocations("review_response") > 0
        => /\ Len(state.review_feedback) > 0
           /\ state.review_status
                  = state.review_feedback[Len(state.review_feedback)].status
           /\ state.latest_feedback
                  = state.review_feedback[Len(state.review_feedback)].feedback

\* C15, its case: a rejection followed by a review that raised
C15_Witness ==
    /\ Len(state.review_feedback) = 2
    /\ state.review_feedback[1].status = "rejected"
    /\ last_call.node = "review_response"
    /\ last_call.raised
    /\ state.latest_feedback = "Review system unavailable, proceeding with response"

\* C16: once a generation has run, current_draft is the last element of
\* drafts.
C16_CurrentDraftIsLastDraft ==
    Invocations("generate_response") > 0
        => /\ Len(state.drafts) > 0
           /\ state.current_draft = state.drafts[Len(state.drafts)]

\* C16, its case: a second generation has gone through the except branch
C16_Witness ==
    /\ Len(state.drafts) = 2
    /\ state.drafts[1] # state.drafts[2]
    /\ last_call.node = "generate_response"
    /\ last_call.raised

\* C17: at every step the old drafts and review_feedback are prefixes of the
\* new ones; a generation adds exactly one draft, a review exactly one entry,
\* and no other step adds any.
C17_AppendOnly ==
    [][/\ IsPrefix(state.drafts, state'.drafts)
       /\ IsPrefix(state.review_feedback, state'.review_feedback)
       /\ Len(state'.drafts) =
              IF Log' = Append(Log, "generate_response")
              THEN Len(state.drafts) + 1 ELSE Len(state.drafts)
       /\ Len(state'.review_feedback) =
              IF Log' = Append(Log, "review_response")
              THEN Len(state.review_feedback) + 1
              ELSE Len(state.review_feedback)]_vars

\* C17, its case: a run in its third generation and second review
C17_Witness ==
    /\ Len(state.drafts) = 3
    /\ Len(state.review_feedback) = 2
    /\ Invocations("generate_response") = 3

\* C18: once classify_ticket has run, category is one of the four names,
\* for a valid, an invalid and a failed classifier reply and for an
\* exception in the handler, and the run goes on with retrieve_context.
C18_CategoryIsClosed ==
    /\ [](Invocations("classify_ticket") > 0 => state.category \in Categories)
    /\ [](\A reply \in ClassifierReplies, raised \in BOOLEAN :
             classify_ticket_node(create_initial_state(ticket), reply, raised).category
                 \in Categories)
    /\ [][pc = "classify_ticket" /\ pc' # pc
             => pc' = "retrieve_context" /\ ~graph_raised']_vars

\* C18, its case: the classifier answered with a word that is no category
C18_Witness ==
    /\ last_call.node = "classify_ticket"
    /\ last_call.reply = "invalid"
    /\ state.category = "General"
    /\ pc = "retrieve_context"

\* C19: when the call to the external classifier failed, category is what
\* the keyword heuristic gives for the ticket's subject and description.
C19_FailureUsesHeuristic ==
    (last_call.node = "classify_ticket" /\ last_call.reply = "failed")
        => state.category
               = _fallback_classify(state.ticket.subject, state.ticket.description)

\* the classification stage has just run _fallback_classify
HeuristicPath ==
    /\ last_call.node = "classify_ticket"
    /\ ~gemini_client
    /\ ~last_call.raised

\* C20 as stated: the heuristic gives Billing exactly when the text holds
\* payment, charge or refund; otherwise Technical exactly when it holds api,
\* error, bug or integration; otherwise Security exactly when it holds
\* security, password, login or access; otherwise General.
C20_HeuristicAsStated ==
    HeuristicPath
        => LET text == LowerText(state.ticket.subject \o state.ticket.description)
               B == HasAny(text, { <<"p", "a", "y", "m", "e", "n", "t">>,
                                   <<"c", "h", "a", "r", "g", "e">>,
                                   <<"r", "e", "f", "u", "n", "d">> })
               T == HasAny(text, { <<"a", "p", "i">>, <<"e", "r", "r", "o", "r">>,
                                   <<"b", "u", "g">>, <<"i", "n", "t", "e", "g", "r", "a", "t", "i", "o", "n">> })
               S == HasAny(text, { <<"s", "e", "c", "u", "r", "i", "t", "y">>, <<"p", "a", "s", "s", "w", "o", "r", "d">>,
                                   <<"l", "o", "g", "i", "n">>, <<"a", "c", "c", "e", "s", "s">> })
           IN /\ state.category = "Billing" <=> B
              /\ state.category = "Technical" <=> (~B /\ T)
              /\ state.category = "Security" <=> (~B /\ ~T /\ S)
              /\ state.category = "General" <=> (~B /\ ~T /\ ~S)

\* C20, amended: the heuristic looks for its words in the lower-cased text,
\* as substrings; it gives Billing exactly when the text holds bill, payment,
\* charge, refund or price; otherwise Technical exactly when it holds api,
\* error, bug, technical or integration; otherwise Security exactly when it
\* holds security, password, login, access or authentication; otherwise
\* General; and a second call on the same ticket gives the same category.
C20_HeuristicOfTheCode ==
    HeuristicPath
        => LET text == LowerText(state.ticket.subject \o state.ticket.description)
               B == HasAny(text, billing_words)
               T == HasAny(text, technical_words)
               S == HasAny(text, security_words)
           IN /\ state.category = "Billing" <=> B
              /\ state.category = "Technical" <=> (~B /\ T)
              /\ state.category = "Security" <=> (~B /\ ~T /\ S)
              /\ state.category = "General" <=> (~B /\ ~T /\ ~S)
              /\ _fallback_classify(state.ticket.subject, state.ticket.description)
                     = state.category

\* C20, its case: a capitalised billing word beside a technical word
C20_Witness ==
    /\ HeuristicPath
    /\ state.ticket.subject = <<<<"R", "e", "f", "u", "n", "d">>>>
    /\ state.ticket.description = <<<<"e", "r", "r", "o", "r">>>>
    /\ state.category = "Billing"

\* C21: for a malformed ticket (a blank subject or description, a subject
\* of more than 200 characters, a description of more than 5000) no state is
\* created and no handler runs.
C21_MalformedIsRejected ==
    ~validate_ticket_input(ticket)
        => state = NoState /\ pc \in {"main", "rejected"}

\* the apology of generate_response_node's except branch
Apology == <<"apology", Lower(state.category)>>

\* C22: when the call to the external generator failed, the generation
\* stage has added one draft, the apology naming the category, which is
\* also current_draft; status is response_generated and review comes next.
C22_GeneratorFailureGivesApology ==
    (last_call.node = "generate_response" /\ last_call.reply = "failed")
        => /\ Len(state.drafts) = Invocations("generate_response")
           /\ state.drafts[Len(state.drafts)] = Apology
           /\ state.current_draft = Apology
           /\ state.status = "response_generated"
           /\ pc = "review_response"

\* C23: when the call to the external reviewer failed, or the review
\* handler raised, the review stage has added one entry with status approved
\* and the system-unavailable message, review_status is approved and
\* finalize_response comes next.
C23_ReviewerFailureApproves ==
    (last_call.node = "review_response"
       /\ (last_call.reply = "failed" \/ last_call.raised))
        => /\ Len(state.review_feedback) = Invocations("review_response")
           /\ state.review_feedback[Len(state.review_feedback)].status = "approved"
           /\ state.review_feedback[Len(state.review_feedback)].feedback
                  = "Review system unavailable, proceeding with response"
           /\ state.review_status = "approved"
           /\ pc = "finalize_response"

\* C23, its case: the reviewer rejected a draft and was down for the next
C23_Witness ==
    /\ last_call.node = "review_response"
    /\ last_call.reply = "failed"
    /\ Verdicts = <<"rejected", "approved">>
    /\ pc = "finalize_response"

\* C24: in a run whose retriever and generator both failed and that has one
\* draft, retrieved_context is empty, the draft is the apology, its review is
\* approved and the run returns resolved.
C24_BothFailStillResolves ==
    ({"retrieve_context", "generate_response"} \subseteq failed_calls
       /\ Len(state.drafts) = 1)
        => /\ Invocations("refine_context") = 0 => state.retrieved_context = <<>>
           /\ state.drafts[1] = Apology
           /\ Len(state.review_feedback) > 0
                 => state.review_feedback[1].status = "approved"
           /\ Returned => outcome.status = "resolved"

\* C25: a refine_context stage whose retriever failed leaves
\* retrieved_context as it was and sets status to context_refined.
C25_RefineFailureKeepsContext ==
    [][(pc = "refine_context"
          /\ last_call'.node = "refine_context"
          /\ last_call'.reply = "failed"
          /\ Log' = Append(Log, "refine_context"))
       => /\ state'.retrieved_context = state.retrieved_context
          /\ state'.status = "context_refined"]_vars

\* C27: in a resolved state final_output is current_draft, which is the
\* last draft, the last review is approved and processing_end_time is set.
C27_ResolvedIsApprovedDraft ==
    state.status = "resolved"
        => /\ state.final_output = state.current_draft
           /\ Len(state.drafts) > 0
           /\ state.current_draft = state.drafts[Len(state.drafts)]
           /\ Len(state.review_feedback) > 0
           /\ state.review_feedback[Len(state.review_feedback)].status = "approved"
           /\ state.processing_end_time # NoneStr

\* C27, its case: the second of two different drafts has been approved
C27_Witness ==
    /\ state.status = "resolved"
    /\ Len(state.drafts) = 2
    /\ state.drafts[1] # state.drafts[2]
    /\ Verdicts = <<"rejected", "approved">>

\* C26: when the write of the escalation row failed, the escalation handler
\* has still finished: escalated is True, status is escalated, final_output
\* is not empty, the graph did not raise, and the caller gets that outcome.
C26_SinkFailureStillEscalates ==
    (last_call.node = "escalate_ticket" /\ last_call.reply = "failed")
        => /\ state.escalated
           /\ state.status = "escalated"
           /\ Truthy(state.final_output)
           /\ ~graph_raised
           /\ pc = END
           /\ Returned => outcome = result_data(state)

\* C26, its case: the outcome of an escalation whose row was not written
C26_Witness ==
    /\ last_call.node = "escalate_ticket"
    /\ last_call.reply = "failed"
    /\ escalation_log = <<>>
    /\ Returned
    /\ outcome.escalated

\* the lines of the escalation log that satisfy a test
Lines(Test(_)) == {i \in 1..Len(csv_file.lines) : Test(csv_file.lines[i])}

RECURSIVE Alone(_, _)
\* the state of an execution that is given the inputs one after the other
\* with nothing running beside it
Alone(s, inputs) ==
    IF inputs = <<>> THEN s ELSE Alone(handler(s, Head(inputs)), Tail(inputs))

\* C30: a step of one execution leaves the state and the lists of the other
\* as they were, and the state of each execution is, at every point and so
\* at its end, what the same inputs give to an execution that runs alone.
C30_RunsAreIsolated ==
    /\ [](\A r \in Runs :
             runs[r].pc # "start"
                 => state_of(heap, runs, r)
                        = Alone(create_initial_state(runs[r].ticket), runs[r].inputs))
    /\ [][\A r \in Runs :
             (runs[r].pc # "start" /\ runs'[r].inputs = runs[r].inputs)
                 => state_of(heap', runs', r) = state_of(heap, runs, r)]_vars

\* C30, its case: both executions are through, one with two drafts and a
\* rejection, the other with one draft
C30_Witness ==
    /\ \A r \in Runs : runs[r].pc = END
    /\ Len(state_of(heap, runs, "first").drafts) = 2
    /\ Len(state_of(heap, runs, "second").drafts) = 1
    /\ state_of(heap, runs, "first").review_feedback[1].status = "rejected"
    /\ state_of(heap, runs, "first").ticket = state_of(heap, runs, "second").ticket

\* the stages an edge of the graph leads to from a stage
Successors(node) ==
    CASE node = "classify_ticket"   -> {"retrieve_context"}
      [] node = "retrieve_context"  -> {"generate_response"}
      [] node = "generate_response" -> {"review_response"}
      [] node = "review_response"   -> {"finalize_response", "refine_context",
                                        "escalate_ticket"}
      [] node = "refine_context"    -> {"generate_response"}
      [] OTHER                      -> {}

\* the stages executed so far start at classify_ticket and follow the edges:
\* only review_response has more than one successor, and nothing follows
\* finalize_response or escalate_ticket
StagesFollowEdges ==
    /\ Len(Log) > 0 => Log[1] = "classify_ticket"
    /\ \A i \in 2..Len(Log) : Log[i] \in Successors(Log[i-1])
    /\ pc = END => Successors(LastNode) = {}
    /\ pc # END /\ Len(Log) > 0 => pc \in Successors(LastNode)

\* C31: the stages a run executes are classify_ticket, retrieve_context,
\* then generate_response and review_response repeated with refine_context
\* in between, then exactly one of finalize_response or escalate_ticket: a
\* run that is over has ended with one terminal stage, and nothing ran
\* after it.
C31_StagesEndWithOneTerminal ==
    /\ StagesFollowEdges
    /\ (pc = END \/ graph_raised)
          => /\ LastNode \in {"finalize_response", "escalate_ticket"}
             /\ Invocations("finalize_response")
                    + Invocations("escalate_ticket") = 1

\* C33: after any prefix of a run the log has one entry for each handler
\* invocation completed so far: every handler, on its normal path and on its
\* error path, appends exactly one entry, the name of its stage, and no entry
\* is ever removed or changed.
C33_OneLogEntryPerInvocation ==
    /\ [](Len(Log) = steps)
    /\ [](\A raised \in BOOLEAN :
             escalate_ticket_node(state, raised).node_execution_log
                 = Append(Log, "escalate_ticket"))
    /\ [][state' # state => Log' = Append(Log, pc)]_vars

\* C33, its case: five handlers have completed, the last through its except
\* branch
C33_Witness ==
    /\ steps = 5
    /\ Len(Log) = 5
    /\ last_call.raised

\* the generation that has just run called the generator
GeneratorCalled ==
    /\ LastNode = "generate_response"
    /\ last_call.node = "generate_response"
    /\ last_call.reply # "none"

\* C34: the generation handler hands review feedback to the generator
\* exactly when the latest review entry is a rejection: the first generation
\* of a run hands over none, and a generation reached through refine_context
\* hands over the feedback text of the review just before it.
C34_FeedbackOfLatestRejection ==
    GeneratorCalled
        => LET reviews == state.review_feedback
               latest == reviews[Len(reviews)]
           IN /\ last_exchange.sent # NoneStr
                    <=> (Len(reviews) > 0 /\ latest.status = "rejected")
              /\ Len(state.drafts) = 1 => last_exchange.sent = NoneStr
              /\ Len(state.drafts) > 1
                    => /\ Log[Len(Log) - 1] = "refine_context"
                       /\ Log[Len(Log) - 2] = "review_response"
                       /\ latest.status = "rejected"
                       /\ last_exchange.sent = latest.feedback

\* C34, its case: the third generation of a run, after two rejections with
\* different feedback, has called the generator
C34_Witness ==
    /\ GeneratorCalled
    /\ Len(state.drafts) = 3
    /\ state.review_feedback[1].feedback = "too vague"
    /\ state.review_feedback[2].feedback = "wrong policy"
    /\ last_exchange.sent = "wrong policy"

\* C36: a reviewer reply of the form 'REJECTED: <feedback>' is recorded as
\* a rejection with that feedback, whatever words the feedback contains;
\* only a reply with neither verdict word is taken as approved by default.
C36_RejectedReplyIsRejection ==
    (LastNode = "review_response"
       /\ last_call.node = "review_response"
       /\ last_call.reply = "ok")
        => LET reply == last_exchange.received
               latest == state.review_feedback[Len(state.review_feedback)]
           IN /\ reply.rejected
                    => /\ latest.status = "rejected"
                       /\ latest.feedback = reply.rest
              /\ latest.feedback = "Review completed successfully"
                    <=> (~reply.rejected /\ ~reply.approved)

\* C37: no handler changes ticket, and once classify_ticket has set
\* category no later handler (retrieve, generate, review, refine, finalize,
\* escalate) changes it.
C37_TicketAndCategoryAreKept ==
    /\ [](state.ticket = ticket)
    /\ [][/\ state'.ticket = state.ticket
          /\ pc # "classify_ticket" => state'.category = state.category]_vars
    /\ [](\A raised \in BOOLEAN :
             /\ escalate_ticket_node(state, raised).ticket = state.ticket
             /\ escalate_ticket_node(state, raised).category = state.category)

\* C37, its case: a run classified as Billing has ended after a generation
\* that went through its except branch
C37_Witness ==
    /\ pc = END
    /\ state.category = "Billing"
    /\ \E i \in 1..Len(state.drafts) : state.drafts[i] = <<"apology", "billing">>

Retrieved == state.retrieved_context

\* top_k and min_relevance of the search the last handler made
TopK == IF LastNode = "refine_context" THEN 5 ELSE 3

MinRelevance == IF LastNode = "refine_context" THEN 5 ELSE 10

Searched == LastNode \in {"retrieve_context", "refine_context"}

\* C35: what retrieve_context returns has at most top_k documents, in
\* non-increasing order of relevance_score, each scoring at least
\* min_relevance; so retrieved_context has at most 3 documents after
\* retrieve_context and at most 5 after refine_context.
C35_TopKSortedAboveThreshold ==
    Searched
        => /\ Len(Retrieved) <= TopK
           /\ \A i \in 1..Len(Retrieved) :
                  /\ similarities[Retrieved[i]] >= MinRelevance
                  /\ \A j \in i..Len(Retrieved) :
                         similarities[Retrieved[i]] >= similarities[Retrieved[j]]

\* C35, its case: refine_context found more than five documents at or above
\* its threshold, of different scores, and kept five
C35_Witness ==
    /\ LastNode = "refine_context"
    /\ Len(all_results(document_stores, similarities, state.category,
                       5, TRUE, 5)) > 5
    /\ Len(Retrieved) = 5
    /\ similarities[Retrieved[1]] > similarities[Retrieved[5]]

\* C38: what retrieve_context returns holds no document twice, also when
\* the primary category has no index, so that General is searched in its
\* place and again as a related category.
C38_NoDocumentTwice ==
    Searched
        => \A i, j \in 1..Len(Retrieved) : Retrieved[i] = Retrieved[j] => i = j

\* C32: a handler writes the state only after its external call has
\* returned: while the call is in flight the state is the state at stage
\* entry, the last checkpoint.  So a stage abandoned in flight and restarted
\* from the checkpoint ends as the handler applied once to the checkpoint,
\* as in an uninterrupted run: no draft, review entry or log entry is there
\* twice.
C32_NoWriteBeforeTheCallReturns ==
    /\ [](in_flight => state = checkpoint)
    /\ [][/\ in_flight /\ ~in_flight' /\ steps' = steps
             => state' = checkpoint /\ pc' = pc
          /\ steps' = steps + 1
             => \E input \in ConcurrentInputs(pc) :
                    /\ state' = handler(checkpoint, input)
                    /\ checkpoint' = state']_vars
    /\ [](/\ Len(Log) = steps
          /\ Len(state.drafts) = Invocations("generate_response")
          /\ Len(state.review_feedback) = Invocations("review_response")
          /\ StagesFollowEdges)

\* C32, its case: a run has ended with two drafts after a generation and a
\* review were each abandoned in flight and restarted
C32_Witness ==
    /\ pc = END
    /\ {"generate_response", "review_response"} \subseteq failed_calls
    /\ Len(state.drafts) = 2
    /\ Len(state.review_feedback) = 2
====
